---- MODULE Spec2Model ----
(***************************************************************************)
(* Model of the chat component of src/pages/index.js (AgentComponent).     *)
(*                                                                         *)
(* The component is a single-threaded, event-driven React component: each  *)
(* event handler and each continuation of the async function               *)
(* submitMessage runs to completion, so each is one action here.  Text is  *)
(* a sequence of tokens; a one-character token is a character of the       *)
(* input, a longer token is a literal of the source.                       *)
(***************************************************************************)
EXTENDS Integers, Sequences, FiniteSets, TLC

\* ------------------------------------------------------------------ bounds
\* number of submissions accepted in one behaviour
MaxCalls == 2

\* number of submissions accepted in a behaviour of SpecFeedback
MaxFbCalls == 1

\* number of copy timers pending at once
MaxTimers == 2

\* ------------------------------------------------------------------- text
WhiteSpace == {" "}

EmptyText == <<>>

\* what can be typed into the input or passed as a prompt: nothing, white
\* space only, a padded word, two words
Inputs ==
    {EmptyText,
     <<" ", " ">>,
     <<" ", "a", " ">>,
     <<"a", " ", "b">>}

RECURSIVE TrimStart(_)
TrimStart(s) ==
    IF s = EmptyText THEN s
    ELSE IF Head(s) \in WhiteSpace THEN TrimStart(Tail(s)) ELSE s

RECURSIVE TrimEnd(_)
TrimEnd(s) ==
    IF s = EmptyText THEN s
    ELSE IF s[Len(s)] \in WhiteSpace THEN TrimEnd(SubSeq(s, 1, Len(s) - 1)) ELSE s

\* String.prototype.trim
Trim(s) == TrimEnd(TrimStart(s))

\* JavaScript truthiness of a string: the empty string is falsy
Truthy(s) == s # EmptyText

\* --------------------------------------------------------------- transport
\* HTTP statuses the proxy may answer with
Statuses == {200, 404, 500}
\* Response.ok that takes a client error (4xx) for a success
ResOkBelow500(status) == status >= 200 /\ status <= 499

\* Response.ok
ResOk(status) == status >= 200 /\ status <= 299

\* contents the agent may send in output_data.content
Contents == {EmptyText, <<"hello">>}

\* A response body: text that is not JSON, or the value JSON.parse gives.
\* kind: the body itself; od: its output_data member; ct: the content member
\* of output_data; val: the string held by content.
Body(kind, od, ct, val) == [kind |-> kind, od |-> od, ct |-> ct, val |-> val]

NoBody == Body("none", "absent", "absent", EmptyText)

MalformedBody == Body("malformed", "absent", "absent", EmptyText)

\* null, {}, {output_data: {}} and {output_data: {content: c}}
JsonBodies ==
    {Body("null", "absent", "absent", EmptyText),
     Body("object", "absent", "absent", EmptyText),
     Body("object", "object", "absent", EmptyText)}
    \cup {Body("object", "object", "string", c) : c \in Contents}

\* message of the TypeError fetch rejects with when the network is unreachable
NetworkErrorMessage == <<"Failed to fetch">>

\* message of the SyntaxError res.json() rejects with
SyntaxErrorMessage == <<"Unexpected token in JSON">>

\* message of the TypeError raised by reading a property of null
TypeErrorMessage == <<"Cannot read properties of null (reading 'output_data')">>

\* ------------------------------------------------------ submitMessage parts
FallbackReply == <<"No valid response received from agent.">>
\* the user entry built from the raw input, without trim()
UserMessageUntrimmed(userInput) == [role |-> "user", content |-> userInput]

\* const userMessage = { role: "user", content: userInput.trim() }
UserMessage(userInput) == [role |-> "user", content |-> Trim(userInput)]

AgentMessage(content) == [role |-> "agent", content |-> content]
\* the payload with the two identifiers in each other's place
PayloadSwapped(userMessage, uid, sid) ==
    [data |-> [message |-> userMessage],
     stateful |-> TRUE, stream |-> FALSE,
     user_id |-> sid, session_id |-> uid, verbose |-> FALSE]

\* const payload = { data: { message: userMessage }, stateful: true, ... }
Payload(userMessage, uid, sid) ==
    [data |-> [message |-> userMessage],
     stateful |-> TRUE, stream |-> FALSE,
     user_id |-> uid, session_id |-> sid, verbose |-> FALSE]

\* throw new Error(`Server error: ${res.status}`)
ServerErrorMessage(status) == <<"Server error: ", ToString(status)>>

\* data.output_data && data.output_data.content : is the reply taken from data
HasReply(data) == data.od = "object" /\ data.ct = "string" /\ Truthy(data.val)

\* const agentReply = data.output_data && data.output_data.content ? ... : ...
AgentReply(data) == IF HasReply(data) THEN data.val ELSE FallbackReply

\* { role: "agent", content: `Error: ${err.message}` }
ErrorEntry(errMessage) == AgentMessage(<<"Error: ">> \o errMessage)

\* the value setIsLoading is given in the finally block
FinallyLoading == FALSE

\* ---------------------------------------------------------------- identity
\* longest identifier the getters keep: sessionId.length <= 32, slice(0, 32)
MaxIdLen == 32

\* n copies of the character c
RECURSIVE Rep(_, _)
Rep(c, n) == IF n = 0 THEN <<>> ELSE <<c>> \o Rep(c, n - 1)

\* a value of uuidv4(): 36 characters, xxxxxxxx-xxxx-4xxx-8xxx-xxxxxxxxxxxx
Uuid(c) ==
    Rep(c, 8) \o <<"-">> \o Rep(c, 4) \o <<"-", "4">> \o Rep(c, 3)
        \o <<"-", "8">> \o Rep(c, 3) \o <<"-">> \o Rep(c, 12)

\* the values uuidv4() may give
Uuids == {Uuid("a"), Uuid("b")}

\* .replace(/-/g, "")
RemoveDashes(s) == SelectSeq(s, LAMBDA ch : ch # "-")

\* .slice(0, n)
Slice(s, n) == SubSeq(s, 1, IF Len(s) < n THEN Len(s) ELSE n)

\* uuidv4().replace(/-/g, "").slice(0, 32)
NewId(uuid) == Slice(RemoveDashes(uuid), MaxIdLen)

\* A storage item is <<>> when getItem gives null and <<v>> when it gives v.
\* What a storage may hold before the page runs: nothing, the empty string, a
\* short identifier, one of 32 characters, one of 33, a dashed uuid of 36.
StoredItems ==
    {<<>>,
     <<EmptyText>>,
     << <<"i", "d">> >>,
     <<NewId(Uuid("c"))>>,
     <<Append(NewId(Uuid("c")), "c")>>,
     <<Uuid("c")>>}
\* the test without the length: sessionId ? sessionId : null
KeepStoredAnyLength(item) ==
    IF item # <<>> /\ Truthy(item[1]) THEN item ELSE <<>>

\* the test with < in place of <=
KeepStoredStrict(item) ==
    IF item # <<>> /\ Truthy(item[1]) /\ Len(item[1]) < MaxIdLen THEN item ELSE <<>>

\* sessionId && sessionId.length <= 32 ? sessionId : null
KeepStored(item) ==
    IF item # <<>> /\ Truthy(item[1]) /\ Len(item[1]) <= MaxIdLen THEN item ELSE <<>>
\* getSessionId() without sessionStorage.setItem
GetSessionIdNoWrite(hasWin, item, uuid) ==
    IF ~hasWin
    THEN [ret |-> EmptyText, store |-> item, read |-> FALSE, wrote |-> FALSE]
    ELSE IF KeepStored(item) = <<>>
         THEN [ret |-> NewId(uuid), store |-> item, read |-> TRUE, wrote |-> FALSE]
         ELSE [ret |-> KeepStored(item)[1], store |-> item,
               read |-> TRUE, wrote |-> FALSE]

\* getSessionId(): what it returns (ret), what it leaves in sessionStorage
\* (store), and whether it read (read) and wrote (wrote) the storage
GetSessionIdResult(hasWin, item, uuid) ==
    IF ~hasWin
    THEN [ret |-> EmptyText, store |-> item, read |-> FALSE, wrote |-> FALSE]
    ELSE IF KeepStored(item) = <<>>
         THEN [ret |-> NewId(uuid), store |-> <<NewId(uuid)>>,
               read |-> TRUE, wrote |-> TRUE]
         ELSE [ret |-> KeepStored(item)[1], store |-> item,
               read |-> TRUE, wrote |-> FALSE]

\* getUserId() without the typeof window test
GetUserIdNoGuard(hasWin, item, uuid) ==
    IF KeepStored(item) = <<>>
    THEN [ret |-> NewId(uuid), store |-> <<NewId(uuid)>>,
          read |-> TRUE, wrote |-> TRUE]
    ELSE [ret |-> KeepStored(item)[1], store |-> item,
          read |-> TRUE, wrote |-> FALSE]

\* getUserId(): the same against localStorage
GetUserIdResult(hasWin, item, uuid) ==
    IF ~hasWin
    THEN [ret |-> EmptyText, store |-> item, read |-> FALSE, wrote |-> FALSE]
    ELSE IF KeepStored(item) = <<>>
         THEN [ret |-> NewId(uuid), store |-> <<NewId(uuid)>>,
               read |-> TRUE, wrote |-> TRUE]
         ELSE [ret |-> KeepStored(item)[1], store |-> item,
               read |-> TRUE, wrote |-> FALSE]

\* ---------------------------------------------------------------- feedback
\* { like: false, dislike: false, copied: false }
NoFeedback == [like |-> FALSE, dislike |-> FALSE, copied |-> FALSE]

\* the labels setHoveredIdx is given
Hovers == {"", "like", "dislike", "copy"}

\* while (arr.length < n) arr.push(fill); return arr.slice(0, n);
RECURSIVE PadTo(_, _, _)
PadTo(arr, n, fill) == IF Len(arr) < n THEN PadTo(Append(arr, fill), n, fill) ELSE arr
\* the resize without the padding loop: arr.slice(0, n) only
ResizeNoPad(arr, n, fill) == Slice(arr, n)

Resize(arr, n, fill) == Slice(PadTo(arr, n, fill), n)

\* ------------------------------------------------------------------- state
VARIABLES
    message,        \* useState(""): text of the input field
    conversation,   \* useState([]): sequence of message entries
    error,          \* useState(null): the separate error slot
    isLoading,      \* useState(false)
    showPills,      \* useState(true)
    calls,          \* the invocations of submitMessage that passed validation
    requests,       \* the fetch calls issued, in order
    invoked,        \* argument of the submitMessage call of the last step, if any
    feedbackArr,    \* useState([]): feedback state per message
    hoveredArr,     \* useState([]): hover label per message
    timers,         \* pending setTimeout callbacks of handleCopy, oldest first
    fbOp,           \* the feedback handler or timer run by the last step, if any
    hasWindow,      \* typeof window !== "undefined"
    sessionStore,   \* sessionStorage item "sessionId"
    localStore,     \* localStorage item "userId"
    sessionId,      \* useState("")
    userId,         \* useState("")
    mounted,        \* the effects of the first render have run
    idOp,           \* the identity getters run by the last step, if any
    sessionRet,     \* the last two values getSessionId returned
    userRet         \* the last two values getUserId returned

exchangeVars == <<message, conversation, error, isLoading, showPills, calls, requests, invoked>>

fbVars == <<feedbackArr, hoveredArr, timers, fbOp>>

idVars == <<hasWindow, sessionStore, localStore, sessionId, userId, mounted, idOp,
            sessionRet, userRet>>

vars == <<message, conversation, error, isLoading, showPills, calls, requests, invoked,
          feedbackArr, hoveredArr, timers, fbOp,
          hasWindow, sessionStore, localStore, sessionId, userId, mounted, idOp,
          sessionRet, userRet>>

Null == "null"

\* An accepted invocation of submitMessage: its closure (userInput,
\* userMessage, res, data) and its position (pc), with the places of its
\* entries in the conversation.
\*   pc     : "fetching" (await fetch), "parsing" (await res.json()), "done"
\*   status : res.status, 0 while there is no response
\*   data   : what res.json() gave, NoBody while it gave nothing
\*   path   : "none" while running, then "reply", "fallback" or "error"
\*   uidx, aidx : where the user entry and the agent entry were appended
NewCall(userInput, uidx) ==
    [userInput |-> userInput, userMessage |-> UserMessage(userInput),
     pc |-> "fetching", status |-> 0, data |-> NoBody,
     path |-> "none", uidx |-> uidx, aidx |-> 0]

\* op: what ran; readSession, readUser: whether it called getItem; sessionWas,
\* userWas: the items it found in the storages (<<>> too when it did not read
\* them); wroteSession, wroteUser: whether it called setItem
NoIdOp ==
    [op |-> "none", readSession |-> FALSE, readUser |-> FALSE,
     sessionWas |-> <<>>, userWas |-> <<>>,
     wroteSession |-> FALSE, wroteUser |-> FALSE]

\* the component after its useState calls, before its effects have run
InitComponent ==
    /\ message = EmptyText
    /\ conversation = <<>>
    /\ error = Null
    /\ isLoading = FALSE
    /\ showPills = TRUE
    /\ calls = <<>>
    /\ requests = <<>>
    /\ invoked = <<>>
    /\ feedbackArr = <<>>
    /\ hoveredArr = <<>>
    /\ timers = <<>>
    /\ fbOp = <<>>
    /\ sessionId = EmptyText
    /\ userId = EmptyText
    /\ mounted = FALSE
    /\ idOp = NoIdOp
    /\ sessionRet = <<>>
    /\ userRet = <<>>

\* a browser whose storages hold a short identifier each
Init ==
    /\ InitComponent
    /\ hasWindow = TRUE
    /\ sessionStore = << <<"s", "1">> >>
    /\ localStore = << <<"u", "1">> >>

\* useEffect(..., [conversation.length]): runs after a render in which the
\* length of the conversation changed
LengthEffect ==
    IF Len(conversation') # Len(conversation)
    THEN /\ feedbackArr' =
              IF Len(feedbackArr) # Len(conversation')
              THEN Resize(feedbackArr, Len(conversation'), NoFeedback)
              ELSE feedbackArr
         /\ hoveredArr' =
              IF Len(hoveredArr) # Len(conversation')
              THEN Resize(hoveredArr, Len(conversation'), "")
              ELSE hoveredArr
    ELSE UNCHANGED <<feedbackArr, hoveredArr>>

\* what a step of submitMessage or of the input leaves alone, with the
\* effect its render triggers
ExchangeFrame ==
    /\ LengthEffect
    /\ fbOp' = <<>>
    /\ idOp' = NoIdOp
    /\ UNCHANGED <<timers, hasWindow, sessionStore, localStore, sessionId, userId,
                   mounted, sessionRet, userRet>>
\* the validation without trim(): if (!userInput) return;
RejectedUntrimmed(userInput) == ~Truthy(userInput)

\* ----------------------------------------------------------------- actions
\* if (!userInput.trim()) return;
Rejected(userInput) == ~Truthy(Trim(userInput))

\* onChange of the input: setMessage(e.target.value)
OnChange(text) ==
    /\ mounted
    /\ message' = text
    /\ invoked' = <<>>
    /\ UNCHANGED <<conversation, error, isLoading, showPills, calls, requests>>
    /\ ExchangeFrame

\* submitMessage(userInput) up to its first await; entryMessage is the input
\* field's text when submitMessage is entered.
SubmitMessage(userInput, entryMessage) ==
    /\ mounted
    /\ invoked' = <<userInput>>
    /\ IF Rejected(userInput)
       THEN \* return;
            /\ message' = entryMessage
            /\ UNCHANGED <<conversation, error, isLoading, showPills, calls, requests>>
       ELSE /\ Len(calls) < MaxCalls
            /\ message' = EmptyText
            /\ error' = Null
            /\ conversation' = Append(conversation, UserMessage(userInput))
            /\ showPills' = FALSE
            /\ isLoading' = TRUE
            /\ calls' = Append(calls, NewCall(userInput, Len(conversation) + 1))
            /\ requests' = Append(requests,
                   [call |-> Len(calls) + 1, payload |-> Payload(UserMessage(userInput), userId, sessionId)])
    /\ ExchangeFrame

\* the form's onSubmit; the send button is disabled while isLoading
HandleSubmit ==
    /\ ~isLoading
    /\ SubmitMessage(message, message)

\* handlePromptClick(prompt): setMessage(prompt); await submitMessage(prompt)
HandlePromptClick(prompt) ==
    SubmitMessage(prompt, prompt)
\* the catch block of the legacy variant: the error goes to the error slot,
\* not to the conversation
CatchToErrorSlot(k, status, data, errMessage) ==
    /\ error' = errMessage
    /\ isLoading' = FinallyLoading
    /\ calls' = [calls EXCEPT ![k].pc = "done", ![k].path = "error",
                              ![k].status = status, ![k].data = data]
    /\ invoked' = <<>>
    /\ UNCHANGED <<message, conversation, showPills, requests>>
    /\ ExchangeFrame
\* the catch block without a finally block: loading stays as it is
CatchNoFinally(k, status, data, errMessage) ==
    /\ conversation' = Append(conversation, ErrorEntry(errMessage))
    /\ calls' = [calls EXCEPT ![k].pc = "done", ![k].path = "error",
                              ![k].status = status, ![k].data = data,
                              ![k].aidx = Len(conversation) + 1]
    /\ invoked' = <<>>
    /\ UNCHANGED <<message, error, isLoading, showPills, requests>>
    /\ ExchangeFrame

\* the catch block putting the error entry first: [entry, ...prev]
CatchPrepend(k, status, data, errMessage) ==
    /\ conversation' = <<ErrorEntry(errMessage)>> \o conversation
    /\ isLoading' = FinallyLoading
    /\ calls' = [calls EXCEPT ![k].pc = "done", ![k].path = "error",
                              ![k].status = status, ![k].data = data,
                              ![k].aidx = Len(conversation) + 1]
    /\ invoked' = <<>>
    /\ UNCHANGED <<message, error, showPills, requests>>
    /\ ExchangeFrame

\* the catch block rolling the optimistic update back: the last entry is
\* replaced by the error entry
CatchRollback(k, status, data, errMessage) ==
    /\ conversation' = Append(SubSeq(conversation, 1, Len(conversation) - 1),
                              ErrorEntry(errMessage))
    /\ isLoading' = FinallyLoading
    /\ calls' = [calls EXCEPT ![k].pc = "done", ![k].path = "error",
                              ![k].status = status, ![k].data = data,
                              ![k].aidx = Len(conversation)]
    /\ invoked' = <<>>
    /\ UNCHANGED <<message, error, showPills, requests>>
    /\ ExchangeFrame

\* catch (err) { setConversation(... Error: err.message) } finally { ... }
\* status: the status of the response, 0 when fetch gave none; data: what
\* res.json() gave, NoBody when it was not reached
Catch(k, status, data, errMessage) ==
    /\ conversation' = Append(conversation, ErrorEntry(errMessage))
    /\ isLoading' = FinallyLoading
    /\ calls' = [calls EXCEPT ![k].pc = "done", ![k].path = "error",
                              ![k].status = status, ![k].data = data,
                              ![k].aidx = Len(conversation) + 1]
    /\ invoked' = <<>>
    /\ UNCHANGED <<message, error, showPills, requests>>
    /\ ExchangeFrame
\* fetch rejects and the request is sent once more
FetchRejectRetry(k) ==
    /\ calls[k].pc = "fetching"
    /\ Cardinality({i \in DOMAIN requests : requests[i].call = k}) < 2
    /\ requests' = Append(requests,
           [call |-> k, payload |-> Payload(calls[k].userMessage, userId, sessionId)])
    /\ invoked' = <<>>
    /\ UNCHANGED <<message, conversation, error, isLoading, showPills, calls>>
    /\ ExchangeFrame

\* fetch rejects: the network is unreachable
FetchReject(k) ==
    /\ calls[k].pc = "fetching"
    /\ Catch(k, 0, NoBody, NetworkErrorMessage)

\* fetch resolves with a response whose status is not 2xx: the throw at
\* `if (!res.ok)` is caught in the same continuation
FetchResolveError(k, status) ==
    /\ calls[k].pc = "fetching"
    /\ ~ResOk(status)
    /\ Catch(k, status, NoBody, ServerErrorMessage(status))

\* fetch resolves with a 2xx response: the function awaits res.json()
FetchResolveOk(k, status) ==
    /\ calls[k].pc = "fetching"
    /\ ResOk(status)
    /\ calls' = [calls EXCEPT ![k].pc = "parsing", ![k].status = status]
    /\ invoked' = <<>>
    /\ UNCHANGED <<message, conversation, error, isLoading, showPills, requests>>
    /\ ExchangeFrame

\* res.json() rejects: the body is not JSON
JsonReject(k) ==
    /\ calls[k].pc = "parsing"
    /\ Catch(k, calls[k].status, MalformedBody, SyntaxErrorMessage)

\* res.json() resolves with null: reading data.output_data throws a TypeError,
\* which the catch block handles like any other error
JsonResolveNull(k, data) ==
    /\ calls[k].pc = "parsing"
    /\ data.kind = "null"
    /\ Catch(k, calls[k].status, data, TypeErrorMessage)

\* res.json() resolves with a value that has properties: the reply or the
\* fallback is appended, the input is cleared, and the finally block runs
JsonResolve(k, data) ==
    /\ calls[k].pc = "parsing"
    /\ data.kind = "object"
    /\ conversation' = Append(conversation, AgentMessage(AgentReply(data)))
    /\ message' = EmptyText
    /\ isLoading' = FinallyLoading
    /\ calls' = [calls EXCEPT ![k].pc = "done", ![k].data = data,
                              ![k].path = IF HasReply(data) THEN "reply" ELSE "fallback",
                              ![k].aidx = Len(conversation) + 1]
    /\ invoked' = <<>>
    /\ UNCHANGED <<error, showPills, requests>>
    /\ ExchangeFrame

\* ------------------------------------------------------- identity actions
\* the last two values of a log
Push2(log, v) == IF Len(log) < 2 THEN Append(log, v) ELSE <<log[2], v>>

IdentityFrame ==
    /\ invoked' = <<>>
    /\ fbOp' = <<>>
    /\ UNCHANGED <<message, conversation, error, isLoading, showPills, calls, requests,
                   feedbackArr, hoveredArr, timers, hasWindow>>

\* a call of getSessionId()
CallGetSessionId(uuid) ==
    LET r == GetSessionIdResult(hasWindow, sessionStore, uuid)
    IN  /\ sessionStore' = r.store
        /\ sessionRet' = Push2(sessionRet, r.ret)
        /\ idOp' = [op |-> "getSessionId", readSession |-> r.read, readUser |-> FALSE,
                    sessionWas |-> IF r.read THEN sessionStore ELSE <<>>, userWas |-> <<>>,
                    wroteSession |-> r.wrote, wroteUser |-> FALSE]
        /\ UNCHANGED <<localStore, sessionId, userId, mounted, userRet>>
        /\ IdentityFrame

\* a call of getUserId()
CallGetUserId(uuid) ==
    LET r == GetUserIdResult(hasWindow, localStore, uuid)
    IN  /\ localStore' = r.store
        /\ userRet' = Push2(userRet, r.ret)
        /\ idOp' = [op |-> "getUserId", readSession |-> FALSE, readUser |-> r.read,
                    sessionWas |-> <<>>, userWas |-> IF r.read THEN localStore ELSE <<>>,
                    wroteSession |-> FALSE, wroteUser |-> r.wrote]
        /\ UNCHANGED <<sessionStore, sessionId, userId, mounted, sessionRet>>
        /\ IdentityFrame

\* useEffect(() => { setSessionId(getSessionId()); setUserId(getUserId()); }, [])
\* effects run in the browser only, once, before any event is handled
Mount(sessionUuid, userUuid) ==
    LET rs == GetSessionIdResult(hasWindow, sessionStore, sessionUuid)
        ru == GetUserIdResult(hasWindow, localStore, userUuid)
    IN  /\ hasWindow
        /\ ~mounted
        /\ mounted' = TRUE
        /\ sessionStore' = rs.store
        /\ localStore' = ru.store
        /\ sessionId' = rs.ret
        /\ userId' = ru.ret
        /\ sessionRet' = Push2(sessionRet, rs.ret)
        /\ userRet' = Push2(userRet, ru.ret)
        /\ idOp' = [op |-> "mount", readSession |-> rs.read, readUser |-> ru.read,
                    sessionWas |-> IF rs.read THEN sessionStore ELSE <<>>,
                    userWas |-> IF ru.read THEN localStore ELSE <<>>,
                    wroteSession |-> rs.wrote, wroteUser |-> ru.wrote]
        /\ IdentityFrame

\* ------------------------------------------------------- feedback actions
\* the messages rendered with feedback icons: msg.role === "agent"
AgentIndices == {i \in DOMAIN conversation : conversation[i].role = "agent"}

\* arr[idx] = { ...arr[idx], copied: true, like: false, dislike: false }
CopyEntry(e) == [like |-> FALSE, dislike |-> FALSE, copied |-> TRUE]
\* a timer callback that resets the whole entry
TimerEntryResetAll(e) == [like |-> FALSE, dislike |-> FALSE, copied |-> FALSE]

\* arr[idx] = { ...arr[idx], copied: false }
TimerEntry(e) == [e EXCEPT !.copied = FALSE]
\* a like that leaves the dislike flag as it is
LikeEntryKeepDislike(e) == [like |-> ~e.like, dislike |-> e.dislike, copied |-> FALSE]

\* a like that leaves the copied flag as it is: { ...arr[idx], like: ..., dislike: false }
LikeEntryKeepCopied(e) == [like |-> ~e.like, dislike |-> FALSE, copied |-> e.copied]

\* arr[idx] = { like: !arr[idx].like, dislike: false, copied: false }
LikeEntry(e) == [like |-> ~e.like, dislike |-> FALSE, copied |-> FALSE]

\* arr[idx] = { like: false, dislike: !arr[idx].dislike, copied: false }
DislikeEntry(e) == [like |-> FALSE, dislike |-> ~e.dislike, copied |-> FALSE]

FeedbackFrame ==
    /\ invoked' = <<>>
    /\ idOp' = NoIdOp
    /\ UNCHANGED <<message, conversation, error, isLoading, showPills, calls, requests,
                   hasWindow, sessionStore, localStore, sessionId, userId, mounted,
                   sessionRet, userRet>>

\* handleCopy(text, idx) on a rendered agent message
HandleCopy(idx) ==
    /\ mounted
    /\ idx \in AgentIndices
    /\ Len(timers) < MaxTimers
    /\ feedbackArr' = [feedbackArr EXCEPT ![idx] = CopyEntry(@)]
    /\ timers' = Append(timers, idx)
    /\ fbOp' = <<[op |-> "copy", idx |-> idx, threw |-> FALSE]>>
    /\ UNCHANGED hoveredArr
    /\ FeedbackFrame

\* the callback handleCopy gave to setTimeout(..., 1200); callbacks with the
\* same delay run in the order they were scheduled
CopyTimer ==
    /\ timers # <<>>
    /\ feedbackArr' = [feedbackArr EXCEPT ![Head(timers)] = TimerEntry(@)]
    /\ timers' = Tail(timers)
    /\ fbOp' = <<[op |-> "timer", idx |-> Head(timers), threw |-> FALSE]>>
    /\ UNCHANGED hoveredArr
    /\ FeedbackFrame

\* the indices a caller can pass beyond the feedback array: the first one
OutOfRange == {Len(feedbackArr) + 1}

\* handleLike(idx): on an index the array holds, the updater replaces the
\* entry; beyond the array arr[idx] is undefined and reading arr[idx].like
\* throws a TypeError, so the updater returns nothing and the array stays
HandleLike(idx) ==
    /\ mounted
    /\ idx \in AgentIndices \cup OutOfRange
    /\ IF idx \in DOMAIN feedbackArr
       THEN /\ feedbackArr' = [feedbackArr EXCEPT ![idx] = LikeEntry(@)]
            /\ fbOp' = <<[op |-> "like", idx |-> idx, threw |-> FALSE]>>
       ELSE /\ feedbackArr' = feedbackArr
            /\ fbOp' = <<[op |-> "like", idx |-> idx, threw |-> TRUE]>>
    /\ UNCHANGED <<hoveredArr, timers>>
    /\ FeedbackFrame

\* handleDislike(idx): the same with arr[idx].dislike
HandleDislike(idx) ==
    /\ mounted
    /\ idx \in AgentIndices \cup OutOfRange
    /\ IF idx \in DOMAIN feedbackArr
       THEN /\ feedbackArr' = [feedbackArr EXCEPT ![idx] = DislikeEntry(@)]
            /\ fbOp' = <<[op |-> "dislike", idx |-> idx, threw |-> FALSE]>>
       ELSE /\ feedbackArr' = feedbackArr
            /\ fbOp' = <<[op |-> "dislike", idx |-> idx, threw |-> TRUE]>>
    /\ UNCHANGED <<hoveredArr, timers>>
    /\ FeedbackFrame

\* onClick of the like icon of agent message idx: () => handleFeedback(index,
\* "like"); no handleFeedback is declared, so the call throws a ReferenceError
\* and no state is set
ClickLike(idx) ==
    /\ mounted
    /\ idx \in AgentIndices
    /\ fbOp' = <<[op |-> "clickLike", idx |-> idx, threw |-> TRUE]>>
    /\ UNCHANGED <<feedbackArr, hoveredArr, timers>>
    /\ FeedbackFrame

\* onClick of the dislike icon: () => handleFeedback(index, "dislike")
ClickDislike(idx) ==
    /\ mounted
    /\ idx \in AgentIndices
    /\ fbOp' = <<[op |-> "clickDislike", idx |-> idx, threw |-> TRUE]>>
    /\ UNCHANGED <<feedbackArr, hoveredArr, timers>>
    /\ FeedbackFrame

\* setHoveredIdx(idx, val): onMouseEnter / onMouseLeave of a feedback icon
SetHoveredIdx(idx, val) ==
    /\ mounted
    /\ idx \in AgentIndices
    /\ hoveredArr' = [hoveredArr EXCEPT ![idx] = val]
    /\ fbOp' = <<[op |-> "hover", idx |-> idx, threw |-> FALSE]>>
    /\ UNCHANGED <<feedbackArr, timers>>
    /\ FeedbackFrame

\* ----------------------------------------------------------- specifications
\* the exchange of messages, in a browser whose storages hold identifiers
Next ==
    \/ \E u \in {Uuid("a")}, v \in {Uuid("b")} : Mount(u, v)
    \/ \E text \in Inputs : OnChange(text)
    \/ HandleSubmit
    \/ \E prompt \in Inputs : HandlePromptClick(prompt)
    \/ \E k \in DOMAIN calls : FetchReject(k)
    \/ \E k \in DOMAIN calls, status \in Statuses : FetchResolveError(k, status)
    \/ \E k \in DOMAIN calls, status \in Statuses : FetchResolveOk(k, status)
    \/ \E k \in DOMAIN calls : JsonReject(k)
    \/ \E k \in DOMAIN calls, data \in JsonBodies : JsonResolveNull(k, data)
    \/ \E k \in DOMAIN calls, data \in JsonBodies : JsonResolve(k, data)

Spec == Init /\ [][Next]_vars

\* the feedback state of a short conversation
NextFeedback ==
    \/ \E u \in {Uuid("a")}, v \in {Uuid("b")} : Mount(u, v)
    \/ \E prompt \in {<<"a", " ", "b">>} :
          Len(calls) < MaxFbCalls /\ HandlePromptClick(prompt)
    \/ \E k \in DOMAIN calls : FetchReject(k)
    \/ \E idx \in DOMAIN conversation : HandleCopy(idx)
    \/ CopyTimer
    \/ \E idx \in 1..(Len(conversation) + 1) : HandleLike(idx)
    \/ \E idx \in 1..(Len(conversation) + 1) : HandleDislike(idx)
    \/ \E idx \in DOMAIN conversation : ClickLike(idx)
    \/ \E idx \in DOMAIN conversation : ClickDislike(idx)
    \/ \E idx \in DOMAIN conversation, val \in Hovers : SetHoveredIdx(idx, val)

SpecFeedback == Init /\ [][NextFeedback]_vars

\* any browser storage, or no browser at all
InitIdentity ==
    /\ InitComponent
    /\ hasWindow \in BOOLEAN
    /\ sessionStore \in StoredItems
    /\ localStore \in StoredItems

\* the identifiers and the envelopes that carry them
NextIdentity ==
    \/ \E u \in Uuids : CallGetSessionId(u)
    \/ \E u \in Uuids : CallGetUserId(u)
    \/ \E u \in Uuids, v \in Uuids : Mount(u, v)
    \/ \E prompt \in {<<" ", "a", " ">>} : HandlePromptClick(prompt)

SpecIdentity == InitIdentity /\ [][NextIdentity]_vars

TypeOK ==
    /\ message \in Inputs
    /\ isLoading \in BOOLEAN
    /\ showPills \in BOOLEAN
    /\ Len(calls) <= MaxCalls
    /\ Len(invoked) <= 1

\* ------------------------------------------------------------------ claims
UserEntry(text) == [role |-> "user", content |-> text]

AgentEntry(text) == [role |-> "agent", content |-> text]

Done(k) == calls[k].pc = "done"

\* C1: for every input s whose trim is non-empty, submitMessage(s) appends
\* exactly one entry {role: "user", content: trim(s)} to the conversation, and
\* in every state in which the network call of a submission exists, that entry
\* is already in the conversation.
C1_UserEntryBeforeNetwork ==
    /\ [][\A s \in Inputs :
            (invoked' = <<s>> /\ Trim(s) # EmptyText)
                => conversation' = Append(conversation, UserEntry(Trim(s)))]_vars
    /\ [](\A i \in DOMAIN requests :
            LET c == calls[requests[i].call]
            IN  /\ c.uidx \in DOMAIN conversation
                /\ conversation[c.uidx] = UserEntry(Trim(c.userInput))
                /\ requests[i].payload.data.message = UserEntry(Trim(c.userInput)))

\* a padded input was submitted: its trimmed entry is the last of the
\* conversation and its network call is in flight
C1_Witness ==
    /\ invoked = << <<" ", "a", " ">> >>
    /\ conversation # <<>>
    /\ conversation[Len(conversation)] = UserEntry(<<"a">>)
    /\ calls[Len(calls)].pc = "fetching"
    /\ Len(requests) = Len(calls)

\* C2: for every input that is empty or only white space, submitMessage is a
\* no-op: the conversation, the loading flag, the input text (as it was when
\* submitMessage was entered), the pill visibility and the error slot are
\* unchanged, and no network call is issued.
C2_BlankInputNoOp ==
    [][\A s \in Inputs :
        (invoked' = <<s>> /\ Trim(s) = EmptyText)
            => /\ UNCHANGED <<conversation, isLoading, showPills, error, calls, requests>>
               /\ message' = s]_vars

\* submitMessage was just called with white space only, while an exchange is
\* in flight and the pills are hidden
C2_Witness ==
    /\ invoked = << <<" ", " ">> >>
    /\ message = <<" ", " ">>
    /\ isLoading
    /\ Len(conversation) = 1
    /\ Len(requests) = 1

\* a call that completed after a 2xx response whose body parsed to a value
\* holding output_data.content
ContentPresent(k) ==
    /\ Done(k)
    /\ calls[k].status >= 200 /\ calls[k].status <= 299
    /\ calls[k].data.kind = "object"
    /\ calls[k].data.od = "object"
    /\ calls[k].data.ct = "string"

\* C3: starting from an empty conversation with a transport that answers 2xx
\* and a JSON body in which output_data.content is present with value c,
\* submitMessage(s) ends with the conversation equal to
\* [{user, trim(s)}, {agent, c}], for every present content value c.
C3_ReplyForEveryPresentContent ==
    (Len(calls) = 1 /\ ContentPresent(1))
        => conversation = <<UserEntry(Trim(calls[1].userInput)),
                            AgentEntry(calls[1].data.val)>>

\* a call that completed after a 2xx response whose parsed body lacks
\* output_data.content
ContentLacking(k) ==
    /\ Done(k)
    /\ calls[k].status >= 200 /\ calls[k].status <= 299
    /\ calls[k].data.kind \in {"null", "object"}
    /\ ~(calls[k].data.od = "object" /\ calls[k].data.ct = "string")

\* C4: when the transport answers with a non-2xx status n, submitMessage(s)
\* appends {agent, "Error: Server error: n"} and sets loading to false in the
\* step that handles the response; the conversation holds {user, trim(s)} and
\* that error entry at the call's places (and is exactly these two when the
\* call is the only one); the response body is never parsed.
C4_ServerErrorEntry ==
    /\ [][\A k \in DOMAIN calls : \A n \in Statuses :
            (calls[k].pc = "fetching" /\ calls'[k].pc = "done" /\ calls'[k].status = n)
                => /\ ~(n >= 200 /\ n <= 299)
                   /\ conversation' =
                        Append(conversation,
                               AgentEntry(<<"Error: ", "Server error: ", ToString(n)>>))
                   /\ isLoading' = FALSE]_vars
    /\ [](\A k \in DOMAIN calls :
            LET c == calls[k]
                bad == c.status # 0 /\ ~(c.status >= 200 /\ c.status <= 299)
            IN  /\ c.pc = "parsing" => ~bad
                /\ (Done(k) /\ bad) =>
                      /\ c.data = NoBody
                      /\ conversation[c.uidx] = UserEntry(Trim(c.userInput))
                      /\ conversation[c.aidx] =
                            AgentEntry(<<"Error: ", "Server error: ", ToString(c.status)>>)
                      /\ Len(calls) = 1 =>
                            /\ ~isLoading
                            /\ conversation =
                                 <<UserEntry(Trim(c.userInput)),
                                   AgentEntry(<<"Error: ", "Server error: ",
                                                ToString(c.status)>>)>>)

\* a single submission of a padded word was answered with status 500
C4_Witness ==
    /\ Len(calls) = 1
    /\ calls[1].pc = "done"
    /\ calls[1].status = 500
    /\ calls[1].userInput = <<" ", "a", " ">>
    /\ conversation = <<UserEntry(<<"a">>),
                        AgentEntry(<<"Error: ", "Server error: ", "500">>)>>
    /\ ~isLoading

\* C5: for every 2xx response whose parsed JSON body lacks
\* output_data.content, the agent entry appended for that submission has
\* content exactly "No valid response received from agent." and the exception
\* ("Error: ") path is not taken.
C5_FallbackForEveryBodyLackingContent ==
    \A k \in DOMAIN calls :
        ContentLacking(k)
            => /\ conversation[calls[k].aidx] =
                    AgentEntry(<<"No valid response received from agent.">>)
               /\ calls[k].path # "error"

\* the message of the error a failed call was caught with
FailureMessage(c) ==
    IF c.status = 0 THEN <<"Failed to fetch">>
    ELSE IF ~(c.status >= 200 /\ c.status <= 299)
         THEN <<"Server error: ", ToString(c.status)>>
         ELSE <<"Unexpected token in JSON">>

\* a completed call whose fetch rejected, whose response was not 2xx, or whose
\* body was not JSON
Failed(k) ==
    /\ Done(k)
    /\ \/ calls[k].status = 0
       \/ ~(calls[k].status >= 200 /\ calls[k].status <= 299)
       \/ calls[k].data = MalformedBody

\* C6: every failure during the network call, the status check or the JSON
\* parse of a submission is caught inside submitMessage and appends exactly one
\* agent entry whose content is "Error: " followed by the error's message; the
\* call ends like any other, and the separate error slot is never non-null.
C6_FailuresBecomeEntries ==
    /\ error = Null
    /\ Len(conversation) = Len(calls) + Cardinality({k \in DOMAIN calls : Done(k)})
    /\ \A k \in DOMAIN calls :
          Failed(k)
              => /\ calls[k].path = "error"
                 /\ calls[k].aidx \in DOMAIN conversation
                 /\ calls[k].aidx # calls[k].uidx
                 /\ conversation[calls[k].aidx] =
                        AgentEntry(<<"Error: ">> \o FailureMessage(calls[k]))

\* two submissions failed, one at the network and one at the JSON parse
C6_Witness ==
    /\ Len(calls) >= 2
    /\ \E k \in DOMAIN calls : Done(k) /\ calls[k].status = 0
    /\ \E k \in DOMAIN calls : Done(k) /\ calls[k].data = MalformedBody
    /\ Len(conversation) = Len(calls) + Cardinality({k \in DOMAIN calls : Done(k)})

\* C7: every accepted submission whose network call completes, on the
\* success path, the fallback path or the error path, sets loading to false in
\* the step that completes it; when every exchange has completed loading is
\* false.
C7_CompletionClearsLoading ==
    /\ [][\A k \in DOMAIN calls :
            (calls[k].pc # "done" /\ calls'[k].pc = "done") => isLoading' = FALSE]_vars
    /\ []((\A k \in DOMAIN calls : Done(k)) => ~isLoading)

\* exchanges have completed on the reply, the fallback and the error path
C7_Witness ==
    /\ Len(calls) >= 2
    /\ \A k \in DOMAIN calls : Done(k)
    /\ \E k \in DOMAIN calls : calls[k].path = "error"
    /\ \E k \in DOMAIN calls : calls[k].path \in {"reply", "fallback"}
    /\ ~isLoading

RequestsOf(k) == {i \in DOMAIN requests : requests[i].call = k}

\* C8: each accepted submitMessage call issues exactly one network call and
\* appends to the conversation at most twice: one user entry, and after
\* completion exactly one agent entry, so a completed exchange grows the
\* conversation by exactly 2.
C8_OneCallTwoAppends ==
    /\ \A k \in DOMAIN calls : Cardinality(RequestsOf(k)) = 1
    /\ Len(requests) = Len(calls)
    /\ Len(conversation) = Len(calls) + Cardinality({k \in DOMAIN calls : Done(k)})
    /\ \A k \in DOMAIN calls :
          /\ calls[k].uidx \in DOMAIN conversation
          /\ Done(k) <=> calls[k].aidx \in DOMAIN conversation
          /\ Done(k) => calls[k].aidx # calls[k].uidx
    /\ \A j, k \in DOMAIN calls :
          j # k => {calls[j].uidx, calls[j].aidx} \cap {calls[k].uidx, calls[k].aidx} \subseteq {0}

\* one exchange has completed after a network failure and another is in flight
C8_Witness ==
    /\ Len(calls) = 2
    /\ Done(1) /\ calls[1].status = 0
    /\ ~Done(2)
    /\ Len(requests) = 2
    /\ Len(conversation) = 3

\* number of entries of the given role among the first n of the conversation
CountRole(role, n) == Cardinality({i \in 1..n : conversation[i].role = role})

\* C9: for every submission, the user entry of that submission is in the
\* conversation at a strictly smaller index than the agent or error entry
\* produced by the same submission, in every reachable state and under any
\* interleaving of submissions and network completions.
C9_UserEntryBeforeAgentEntry ==
    /\ \A k \in DOMAIN calls :
          /\ calls[k].uidx \in DOMAIN conversation
          /\ conversation[calls[k].uidx] = UserEntry(Trim(calls[k].userInput))
          /\ Done(k) =>
                /\ calls[k].aidx \in DOMAIN conversation
                /\ conversation[calls[k].aidx].role = "agent"
                /\ calls[k].uidx < calls[k].aidx
    /\ \A n \in 0..Len(conversation) : CountRole("agent", n) <= CountRole("user", n)

\* two submissions overlapped and the second completed first
C9_Witness ==
    /\ Len(calls) = 2
    /\ Done(1) /\ Done(2)
    /\ calls[2].aidx < calls[1].aidx
    /\ calls[1].uidx < calls[2].uidx

IsPrefix(s, t) == Len(s) <= Len(t) /\ SubSeq(t, 1, Len(s)) = s

\* C10: the conversation is append-only: in every step the previous
\* conversation is a prefix of the next one, so no entry is ever removed,
\* reordered or edited; a failed network call never removes the user entry
\* already appended for that submission.
C10_AppendOnly ==
    [][IsPrefix(conversation, conversation')]_vars

\* a call failed and its user entry is still in the conversation, followed by
\* its error entry
C10_Witness ==
    /\ Len(calls) = 1
    /\ Done(1) /\ calls[1].path = "error"
    /\ Len(conversation) = 2
    /\ conversation[1] = UserEntry(<<"a", " ", "b">>)
    /\ conversation[2].role = "agent"

\* ------------------------------------------------- claims on the feedback
\* C11: after any sequence of appends to the conversation (and of like,
\* dislike, copy, hover and copy-timer events between them), once the
\* synchronising effect has run the feedback array and the hover array each
\* have length exactly equal to the conversation length.
C11_ArraysAligned ==
    /\ Len(feedbackArr) = Len(conversation)
    /\ Len(hoveredArr) = Len(conversation)

\* a conversation of two entries whose agent entry was liked, is hovered and
\* has a copy timer pending
C11_Witness ==
    /\ Len(conversation) = 2
    /\ Len(feedbackArr) = 2
    /\ Len(hoveredArr) = 2
    /\ hoveredArr[2] = "copy"
    /\ feedbackArr[2].like
    /\ timers # <<>>

\* the last step ran handler op on index i and raised no error
FbStep(op, i) == <<[op |-> op, idx |-> i, threw |-> FALSE]>>

\* C12: for every materialised feedback index i, like and dislike are never
\* both true after any sequence of handleLike, handleDislike and handleCopy
\* calls and timer firings; handleLike(i) then handleDislike(i) yields
\* like=false, dislike=true, and the reverse order yields like=true,
\* dislike=false.
C12_LikeDislikeExclusive ==
    /\ [](\A i \in DOMAIN feedbackArr : ~(feedbackArr[i].like /\ feedbackArr[i].dislike))
    /\ [][\A i \in DOMAIN feedbackArr :
            /\ (fbOp = FbStep("like", i) /\ fbOp' = FbStep("dislike", i))
                  => (~feedbackArr'[i].like /\ feedbackArr'[i].dislike)
            /\ (fbOp = FbStep("dislike", i) /\ fbOp' = FbStep("like", i))
                  => (feedbackArr'[i].like /\ ~feedbackArr'[i].dislike)]_vars

\* the agent entry was just disliked and carries dislike only
C12_Witness ==
    /\ fbOp = FbStep("dislike", 2)
    /\ feedbackArr[2] = [like |-> FALSE, dislike |-> TRUE, copied |-> FALSE]

\* the entries other than i are the same before and after the step
OthersUnchanged(i) ==
    /\ Len(feedbackArr') = Len(feedbackArr)
    /\ \A j \in DOMAIN feedbackArr : j # i => feedbackArr'[j] = feedbackArr[j]

\* C13: handleCopy(text, i) sets copied=true for entry i immediately and the
\* timer it schedules sets copied=false after the fixed 1200 ms delay, and
\* neither step changes the like or dislike flag of entry i or any flag of
\* another entry.
C13_CopyTouchesCopiedOnly ==
    [][\A i \in DOMAIN feedbackArr :
        /\ fbOp' = FbStep("copy", i)
              => /\ feedbackArr'[i].copied
                 /\ feedbackArr'[i].like = feedbackArr[i].like
                 /\ feedbackArr'[i].dislike = feedbackArr[i].dislike
                 /\ OthersUnchanged(i)
        /\ fbOp' = FbStep("timer", i)
              => /\ ~feedbackArr'[i].copied
                 /\ feedbackArr'[i].like = feedbackArr[i].like
                 /\ feedbackArr'[i].dislike = feedbackArr[i].dislike
                 /\ OthersUnchanged(i)]_vars

\* C13 as amended: handleCopy(text, i) sets copied=true for entry i
\* immediately, clears the like and dislike flags of entry i and schedules
\* one timer; the timer sets copied=false and leaves the like and dislike
\* flags of entry i as they are; neither step changes a flag of another entry.
C13_CopyClearsLikeDislike ==
    [][\A i \in DOMAIN feedbackArr :
        /\ fbOp' = FbStep("copy", i)
              => /\ feedbackArr'[i] = [like |-> FALSE, dislike |-> FALSE, copied |-> TRUE]
                 /\ timers' = Append(timers, i)
                 /\ OthersUnchanged(i)
        /\ fbOp' = FbStep("timer", i)
              => /\ timers # <<>> /\ Head(timers) = i /\ timers' = Tail(timers)
                 /\ ~feedbackArr'[i].copied
                 /\ feedbackArr'[i].like = feedbackArr[i].like
                 /\ feedbackArr'[i].dislike = feedbackArr[i].dislike
                 /\ OthersUnchanged(i)]_vars

\* the timer of a copied entry has just fired on an entry that was liked in
\* the meantime: the like is still there
C13_Witness ==
    /\ fbOp = FbStep("timer", 2)
    /\ feedbackArr[2] = [like |-> TRUE, dislike |-> FALSE, copied |-> FALSE]

\* C14: the copied flag of an entry is independent of like and dislike: once
\* set to true it returns to false only when the copy timer fires, never
\* because of a user action, so handleLike(i) and handleDislike(i) leave
\* copied of entry i unchanged.
C14_CopiedResetByTimerOnly ==
    [][\A i \in DOMAIN feedbackArr :
        /\ (feedbackArr[i].copied /\ ~feedbackArr'[i].copied) => fbOp' = FbStep("timer", i)
        /\ fbOp' \in {FbStep("like", i), FbStep("dislike", i)}
              => feedbackArr'[i].copied = feedbackArr[i].copied]_vars

\* C14 as amended: the copied flag of entry i, once true, returns to false
\* when a copy timer of entry i fires or when handleLike(i) or
\* handleDislike(i) is called, both of which set copied of entry i to false;
\* no other step resets it.
C14_CopiedResetByTimerOrToggle ==
    [][\A i \in DOMAIN feedbackArr :
        /\ (feedbackArr[i].copied /\ ~feedbackArr'[i].copied)
              => fbOp' \in {FbStep("timer", i), FbStep("like", i), FbStep("dislike", i)}
        /\ fbOp' \in {FbStep("like", i), FbStep("dislike", i)}
              => ~feedbackArr'[i].copied]_vars

\* a like has reset the copied flag of an entry whose copy timer is pending
C14_Witness ==
    /\ fbOp = FbStep("like", 2)
    /\ timers # <<>> /\ Head(timers) = 2
    /\ feedbackArr[2] = [like |-> TRUE, dislike |-> FALSE, copied |-> FALSE]

\* ----------------------------------------------- claims on the identifiers
\* C15: for each scope, calling the identifier getter twice with no external
\* change to the storage in between returns the same value both times,
\* whatever the storage held before the first call.
C15_GetterIdempotent ==
    /\ Len(sessionRet) = 2 => sessionRet[1] = sessionRet[2]
    /\ Len(userRet) = 2 => userRet[1] = userRet[2]

\* both getters have run twice in a browser and generated their identifier
\* on the first run
C15_Witness ==
    /\ hasWindow
    /\ Len(sessionRet) = 2 /\ Len(userRet) = 2
    /\ Len(sessionRet[1]) = 32
    /\ sessionRet[1] \notin {item[1] : item \in StoredItems \ {<<>>}}
    /\ userRet[1] \notin {item[1] : item \in StoredItems \ {<<>>}}

\* C16: getSessionId and getUserId never return a string longer than 32
\* characters, for every prior content of the storage and every generated
\* identifier; the value they leave in storage is also never longer than 32
\* characters.
C16_AtMost32 ==
    /\ \A i \in DOMAIN sessionRet : Len(sessionRet[i]) <= 32
    /\ \A i \in DOMAIN userRet : Len(userRet[i]) <= 32
    /\ (hasWindow /\ sessionRet # <<>>) => (sessionStore # <<>> /\ Len(sessionStore[1]) <= 32)
    /\ (hasWindow /\ userRet # <<>>) => (localStore # <<>> /\ Len(localStore[1]) <= 32)

\* getSessionId found a dashed uuid of 36 characters and left 32 characters
C16_Witness ==
    /\ idOp.op = "getSessionId"
    /\ idOp.sessionWas # <<>> /\ Len(idOp.sessionWas[1]) = 36
    /\ Len(sessionStore[1]) = 32
    /\ Len(sessionRet[Len(sessionRet)]) = 32

\* the identifier generated from a uuid made of the character c
FreshId(c) == Rep(c, 12) \o <<"4">> \o Rep(c, 3) \o <<"8">> \o Rep(c, 15)

FreshIds == {FreshId("a"), FreshId("b")}

\* what a getter step did to its scope: was, the item it found; now, the item
\* it left; ret, what it returned; wrote, whether it called setItem
GetterContract(was, now, ret, wrote) ==
    /\ (was # <<>> /\ Len(was[1]) > 32)
          => (wrote /\ ret \in FreshIds /\ ret # was[1] /\ now = <<ret>>)
    /\ (was # <<>> /\ Len(was[1]) >= 1 /\ Len(was[1]) <= 32)
          => (~wrote /\ ret = was[1] /\ now = was)

\* C17: when the value stored under a scope's key is longer than 32
\* characters, the next call of that scope's getter generates a fresh
\* identifier, writes it back to the same key replacing the old value, and
\* returns it; a stored value of length 1 to 32 is returned unchanged with no
\* write.
C17_LongReplacedValidKept ==
    [][/\ (hasWindow /\ idOp'.op \in {"getSessionId", "mount"})
            => /\ idOp'.sessionWas = sessionStore
               /\ GetterContract(sessionStore, sessionStore',
                                 sessionRet'[Len(sessionRet')], idOp'.wroteSession)
       /\ (hasWindow /\ idOp'.op \in {"getUserId", "mount"})
            => /\ idOp'.userWas = localStore
               /\ GetterContract(localStore, localStore',
                                 userRet'[Len(userRet')], idOp'.wroteUser)]_vars

\* getUserId found 33 characters and replaced them, and getSessionId, run
\* before it, found 32 characters and kept them
C17_Witness ==
    /\ idOp.op = "getUserId"
    /\ idOp.userWas # <<>> /\ Len(idOp.userWas[1]) = 33
    /\ idOp.wroteUser
    /\ localStore = <<userRet[Len(userRet)]>>
    /\ localStore[1] \in FreshIds
    /\ sessionRet # <<>> /\ sessionStore = <<sessionRet[1]>>
    /\ Len(sessionStore[1]) = 32 /\ sessionStore[1] \notin FreshIds

\* C18: every request envelope sent has stateful=true, stream=false,
\* verbose=false, data.message equal to the user entry just appended for this
\* submission, and user_id and session_id equal to the identifiers the
\* Identity Store holds for the device and session scope, which are not empty.
C18_Envelope ==
    \A i \in DOMAIN requests :
        LET p == requests[i].payload
            c == calls[requests[i].call]
        IN  /\ p.stateful = TRUE /\ p.stream = FALSE /\ p.verbose = FALSE
            /\ p.data.message = conversation[c.uidx]
            /\ p.data.message.role = "user"
            /\ localStore # <<>> /\ p.user_id = localStore[1]
            /\ sessionStore # <<>> /\ p.session_id = sessionStore[1]
            /\ p.user_id # EmptyText /\ p.session_id # EmptyText

\* an envelope was sent with a generated session identifier and a stored
\* user identifier
C18_Witness ==
    /\ Len(requests) = 1
    /\ requests[1].payload.session_id \in FreshIds
    /\ requests[1].payload.user_id = <<"i", "d">>
    /\ requests[1].payload.data.message = UserEntry(<<"a">>)

\* --------------------------------------------- claims on overlapping calls
\* the calls whose network call, or the reading of its body, has not completed
InFlight == {k \in DOMAIN calls : ~Done(k)}

LoadingClearedAtCompletionOnly ==
    [][(isLoading /\ ~isLoading')
            => \E k \in DOMAIN calls : ~Done(k) /\ calls'[k].pc = "done"]_vars

\* ------------------------------------------------- claims of the last group
\* C21: in a context without a browser window, getSessionId and getUserId
\* return the empty string and perform no storage read and no storage write.
C21_NoWindowNoStorage ==
    [][(~hasWindow /\ idOp'.op \in {"getSessionId", "getUserId"})
          => /\ ~idOp'.readSession /\ ~idOp'.readUser
             /\ ~idOp'.wroteSession /\ ~idOp'.wroteUser
             /\ UNCHANGED <<sessionStore, localStore>>
             /\ idOp'.op = "getSessionId" => sessionRet'[Len(sessionRet')] = <<>>
             /\ idOp'.op = "getUserId" => userRet'[Len(userRet')] = <<>>]_vars

\* without a window both getters have run, over a storage holding a legacy
\* value, and returned ""
C21_Witness ==
    /\ ~hasWindow
    /\ idOp.op = "getUserId" /\ ~idOp.readUser /\ ~idOp.wroteUser
    /\ userRet # <<>> /\ userRet[Len(userRet)] = EmptyText
    /\ sessionRet # <<>> /\ sessionRet[Len(sessionRet)] = EmptyText
    /\ localStore # <<>> /\ Len(localStore[1]) = 36
    /\ sessionStore = <<>>

\* C22: handleLike(i) and handleDislike(i) toggle their own flag and clear
\* the other when i is an index the feedback array holds, and are a no-op (the
\* feedback array unchanged, no error raised) when i is out of its range.
C22_OutOfRangeNoOp ==
    [][\A i \in 1..(Len(feedbackArr) + 1) :
          /\ (fbOp' # <<>> /\ fbOp'[1].op = "like" /\ fbOp'[1].idx = i)
                => IF i \in DOMAIN feedbackArr
                   THEN /\ ~fbOp'[1].threw
                        /\ feedbackArr'[i].like = ~feedbackArr[i].like
                        /\ ~feedbackArr'[i].dislike
                   ELSE ~fbOp'[1].threw /\ feedbackArr' = feedbackArr
          /\ (fbOp' # <<>> /\ fbOp'[1].op = "dislike" /\ fbOp'[1].idx = i)
                => IF i \in DOMAIN feedbackArr
                   THEN /\ ~fbOp'[1].threw
                        /\ feedbackArr'[i].dislike = ~feedbackArr[i].dislike
                        /\ ~feedbackArr'[i].like
                   ELSE ~fbOp'[1].threw /\ feedbackArr' = feedbackArr]_vars

\* the part of C22 on the indices the array holds
InRangeToggles ==
    [][\A i \in DOMAIN feedbackArr :
          /\ (fbOp' # <<>> /\ fbOp'[1].op = "like" /\ fbOp'[1].idx = i)
                => /\ ~fbOp'[1].threw
                   /\ feedbackArr'[i].like = ~feedbackArr[i].like
                   /\ ~feedbackArr'[i].dislike
          /\ (fbOp' # <<>> /\ fbOp'[1].op = "dislike" /\ fbOp'[1].idx = i)
                => /\ ~fbOp'[1].threw
                   /\ feedbackArr'[i].dislike = ~feedbackArr[i].dislike
                   /\ ~feedbackArr'[i].like]_vars

\* the indices that still have a reset timer pending
PendingTimers == {timers[n] : n \in DOMAIN timers}

\* C23: when handleCopy(text, i) is invoked again before the reset timer of an
\* earlier invocation has fired, only the reset of the latest invocation takes
\* effect: copied of entry i stays true until the latest timer fires, and is
\* false once all scheduled timers have fired.
C23_LatestTimerResets ==
    /\ [](timers = <<>> => \A i \in DOMAIN feedbackArr : ~feedbackArr[i].copied)
    /\ [][\A i \in DOMAIN feedbackArr :
            (fbOp' = FbStep("timer", i) /\ feedbackArr[i].copied /\ ~feedbackArr'[i].copied)
               => i \notin {timers'[n] : n \in DOMAIN timers'}]_vars

\* the part of C23 on the state after the last timer
CopiedFalseOnceAllFired ==
    timers = <<>> => \A i \in DOMAIN feedbackArr : ~feedbackArr[i].copied

\* C25: a click on the like (dislike) icon of agent message i reaches a
\* defined handler and toggles the like (dislike) flag of feedback entry i; no
\* click on a rendered feedback icon ends in an undefined-handler error.
C25_ClickReachesHandler ==
    [][\A i \in AgentIndices :
          /\ (fbOp' # <<>> /\ fbOp'[1].op = "clickLike" /\ fbOp'[1].idx = i)
                => ~fbOp'[1].threw /\ feedbackArr'[i].like = ~feedbackArr[i].like
          /\ (fbOp' # <<>> /\ fbOp'[1].op = "clickDislike" /\ fbOp'[1].idx = i)
                => ~fbOp'[1].threw /\ feedbackArr'[i].dislike = ~feedbackArr[i].dislike
          /\ (fbOp' # <<>> /\ fbOp'[1].op = "copy" /\ fbOp'[1].idx = i)
                => ~fbOp'[1].threw]_vars

EntriesMatchCalls ==
    LET n == Len(conversation)
    IN  /\ CountRole("user", n) = Len(calls)
        /\ CountRole("agent", n) = Len(calls) - Cardinality(InFlight)
        /\ n > 0 => conversation[1].role = "user"

\* C26: text typed into the input while an exchange is in flight is left
\* unchanged when that exchange completes, on the success path as well as on
\* the error path: submitMessage clears the input only at the moment of
\* submission.
C26_CompletionKeepsInput ==
    [][(\E k \in DOMAIN calls : ~Done(k) /\ calls'[k].pc = "done")
          => message' = message]_vars

\* the part of C26 on the error path
ErrorPathKeepsInput ==
    [][(\E k \in DOMAIN calls : ~Done(k) /\ calls'[k].pc = "done" /\ calls'[k].path = "error")
          => message' = message]_vars

====
